---- MODULE Spec2Model ----
(***************************************************************************)
(* MagentoMapper.transform (src/src/index.js) on the JavaScript run-to-    *)
(* completion scheduler: one synchronous block per call of transform, then *)
(* one microtask per resumed await and per promise reaction, taken from a  *)
(* FIFO job queue.  Objects live on a heap and are held by reference, so   *)
(* that a source object copied into the payload is the same object.        *)
(*                                                                         *)
(* A destination key is the sequence of its dot-separated segments         *)
(* ('stock_item.qty' is <<"stock_item", "qty">>); the segments are plain   *)
(* identifiers (no array indices, no brackets).                            *)
(***************************************************************************)
EXTENDS Integers, Sequences, FiniteSets, TLC

VARIABLES mapping, heap, calls, queue

vars == <<mapping, heap, calls, queue>>

\* ---------------------------------------------------------------- bounds
\* at most this many mapping entries in a configuration
MaxEntries == 3
\* at most this many calls of transform interleaved on one engine instance,
\* and at most this many mapping entries in such an engine's configuration
MaxCalls == 2
MaxCallEntries == 3

\* ---------------------------------------------------------------- values
Prim(x) == <<"prim", x>>
Undefined == Prim("undefined")
Null == Prim("null")
Ref(c, kind, i, d) == <<"ref", c, kind, i, d>>
IsRef(v) == v[1] = "ref"

NoProps == [k \in {} |-> Undefined]
Obj(p) == [kind |-> "obj", props |-> p, elems |-> <<>>]
Arr(s) == [kind |-> "arr", props |-> NoProps, elems |-> s]

\* o[k] for a value o: a property of a heap object, undefined otherwise
GetProp(h, o, k) ==
    IF IsRef(o) /\ k \in DOMAIN h[o].props THEN h[o].props[k] ELSE Undefined

\* o[k] = v on the heap object o
Assign(h, o, k, v) == [h EXCEPT ![o].props = (k :> v) @@ @]

\* !value
Falsy(v) == v \in {Undefined, Null, Prim("s:"), Prim("n:0"), Prim("b:false")}

\* the numbers among the primitive values
NumberOf ==
    ("n:0" :> 0) @@ ("n:1" :> 1) @@ ("n:2" :> 2) @@ ("n:4" :> 4) @@ ("n:7" :> 7)
    @@ ("n:129" :> 129)

\* v > 0 for a number or undefined (undefined > 0 is false)
GreaterThanZero(v) ==
    ~IsRef(v) /\ v[2] \in DOMAIN NumberOf /\ NumberOf[v[2]] > 0

\* ------------------------------------------------------- the source record
SrcA == Ref(0, "src", 1, 0)
DimsA == Ref(0, "dims", 1, 0)
TagsA == Ref(0, "tags", 1, 0)
SrcB == Ref(0, "src", 2, 0)

SourceHeap ==
    (SrcA :> Obj(("id" :> Prim("s:X1")) @@ ("blank" :> Prim("s:"))
                 @@ ("zero" :> Prim("n:0")) @@ ("none" :> Null)
                 @@ ("inventory" :> Prim("n:7")) @@ ("height" :> Prim("n:2"))
                 @@ ("description_2" :> Prim("s:D")) @@ ("class_2" :> Prim("s:Nike"))
                 @@ ("dimensions" :> DimsA) @@ ("tags" :> TagsA)))
    @@ (DimsA :> Obj(("w" :> Prim("n:1"))))
    @@ (TagsA :> Arr(<<Prim("s:new")>>))
    @@ (SrcB :> Obj(("id" :> Prim("s:X2")) @@ ("description_2" :> Prim("s:E"))))

Sources == {SrcA, SrcB}

\* ---------------------------------------------------- resolver functions
\* how a resolver function delivers its result to the await of line 30.
\* mode "sync": it returns a plain value or an already settled promise (an
\* async function without await); "throw": it throws before returning;
\* "async": it returns a pending promise that settles later.  ok: it returns
\* or fulfils (TRUE), throws or rejects (FALSE).
\* the resolver functions of the README's mapping: 'status': () => 1,
\* 'visibility': () => 4, 'stock_item.is_in_stock': (source) =>
\* source.inventory > 0, and 'brand', an async function that awaits nothing.
ReadmeResolvers ==
    ("status" :> [mode |-> "sync", ok |-> TRUE])
    @@ ("visibility" :> [mode |-> "sync", ok |-> TRUE])
    @@ ("inStock" :> [mode |-> "sync", ok |-> TRUE])
    @@ ("brand" :> [mode |-> "sync", ok |-> TRUE])

\* resolver functions a caller may put in a configuration besides those of
\* the README: lookups that are awaited (as the README's lookupBrandId
\* would be) and functions that reject or throw.
InputResolvers ==
    ("brandLookup" :> [mode |-> "async", ok |-> TRUE])
    @@ ("skuLookup" :> [mode |-> "async", ok |-> TRUE])
    @@ ("rrpLookup" :> [mode |-> "async", ok |-> TRUE])
    @@ ("lookupFails" :> [mode |-> "async", ok |-> FALSE])
    @@ ("rejected" :> [mode |-> "sync", ok |-> FALSE])
    @@ ("boom" :> [mode |-> "throw", ok |-> FALSE])

Resolvers == ReadmeResolvers @@ InputResolvers

\* const brandMap = { 'Nike': '124', 'Adidas': '125' }
BrandMap == ("s:Nike" :> Prim("s:124")) @@ ("s:Adidas" :> Prim("s:125"))

\* if (!source.class_2) return null; return brandMap[source.class_2] || null
Brand(h, source) ==
    LET class_2 == GetProp(h, source, "class_2")
    IN IF Falsy(class_2) \/ IsRef(class_2) \/ ~(class_2[2] \in DOMAIN BrandMap) THEN Null
       ELSE BrandMap[class_2[2]]

\* what a resolver function of the README returns or fulfils with
ReadmeReturns(name, h, source) ==
    CASE name = "status" -> Prim("n:1")
      [] name = "visibility" -> Prim("n:4")
      [] name = "inStock" ->
            IF GreaterThanZero(GetProp(h, source, "inventory"))
            THEN Prim("b:true") ELSE Prim("b:false")
      [] name = "brand" -> Brand(h, source)

\* what a caller's resolver function fulfils, rejects or throws with
InputReturns(name) ==
    CASE name = "brandLookup" -> Prim("s:124")
      [] name = "skuLookup" -> Prim("s:X9")
      [] name = "rrpLookup" -> Prim("n:129")
      [] name = "lookupFails" -> Prim("Error: lookup")
      [] name = "rejected" -> Prim("Error: rejected")
      [] name = "boom" -> Prim("Error: boom")

\* sourceInstruction(sourceObject): what the resolver function `name`
\* returns, fulfils, throws or rejects with for the source record
Returns(name, h, source) ==
    IF name \in DOMAIN ReadmeResolvers THEN ReadmeReturns(name, h, source)
    ELSE InputReturns(name)

Field(n) == [kind |-> "field", name |-> n]
Fn(n) == [kind |-> "fn", name |-> n]
Entry(k, ins) == [key |-> k, instr |-> ins]

\* ------------------------------------------------------- configurations
CorePool ==
    { Entry(<<"sku">>, Field("id")), Entry(<<"sku">>, Field("blank")),
      Entry(<<"sku">>, Field("zero")), Entry(<<"sku">>, Fn("skuLookup")),
      Entry(<<"dims">>, Field("dimensions")),
      Entry(<<"dims", "h">>, Field("height")),
      Entry(<<"name">>, Field("missing")),
      Entry(<<"status">>, Fn("status")),
      Entry(<<"visibility">>, Fn("visibility")),
      Entry(<<"custom_attributes">>, Field("tags")) }

ExtPool ==
    { Entry(<<"stock_item", "qty">>, Field("inventory")),
      Entry(<<"stock_item", "is_in_stock">>, Fn("inStock")),
      Entry(<<"stock_item", "min_qty">>, Fn("rrpLookup")) }

CustomPool ==
    { Entry(<<"description">>, Field("description_2")),
      Entry(<<"brand">>, Fn("brand")),
      Entry(<<"brand">>, Fn("brandLookup")),
      Entry(<<"colour">>, Fn("lookupFails")),
      Entry(<<"size">>, Fn("boom")),
      Entry(<<"material">>, Fn("rejected")) }

\* an object literal holds each key once
UniqueKeys(s) == \A i, j \in 1..Len(s) : s[i].key = s[j].key => i = j

\* the sections of n entries of a pool
SectionsOver(pool, n) == {s \in [1..n -> pool] : UniqueKeys(s)}

\* the configurations of at most max entries in all
ConfigsOver(core, ext, custom, max) ==
    UNION {[core : SectionsOver(core, n[1]),
            extensionAttributes : SectionsOver(ext, n[2]),
            customAttributes : SectionsOver(custom, n[3])] :
             n \in {x \in (0..max) \X (0..max) \X (0..max) : x[1] + x[2] + x[3] <= max}}

Configs == ConfigsOver(CorePool, ExtPool, CustomPool, MaxEntries)

IsPrefix(p, q) == Len(p) <= Len(q) /\ SubSeq(q, 1, Len(p)) = p

\* the location an entry addresses in the payload: its destination path, or
\* the list product.custom_attributes for a customAttributes entry
Location(section, key) ==
    IF section = "customAttributes" THEN <<"product", "custom_attributes">>
    ELSE <<"product">>
            \o (IF section = "extensionAttributes" THEN <<"extension_attributes">> ELSE <<>>)
            \o key

\* no entry addresses the location of another entry or a location beneath it,
\* nor the list product.custom_attributes the payload starts with (the
\* customAttributes entries share that list and do not collide)
CollisionFree(m) ==
    /\ \A s, t \in {"core", "extensionAttributes"} :
          \A i \in 1..Len(m[s]), j \in 1..Len(m[t]) :
              <<s, i>> # <<t, j>>
                  => ~IsPrefix(Location(s, m[s][i].key), Location(t, m[t][j].key))
    /\ \A s \in {"core", "extensionAttributes"} :
          \A i \in 1..Len(m[s]) :
              ~IsPrefix(Location("customAttributes", <<>>), Location(s, m[s][i].key))

\* the configurations of an engine that serves several calls
CallConfigs ==
    ConfigsOver({ Entry(<<"sku">>, Field("id")) },
                { Entry(<<"stock_item", "qty">>, Field("inventory")) },
                { Entry(<<"brand">>, Fn("brandLookup")),
                  Entry(<<"size">>, Fn("boom")) },
                MaxCallEntries)

\* the configurations of an engine that is called twice with one source
\* record: a sku and two lookups
TwiceConfigs ==
    ConfigsOver({ Entry(<<"sku">>, Field("id")) }, { },
                { Entry(<<"brand">>, Fn("brandLookup")),
                  Entry(<<"rrp">>, Fn("rrpLookup")) },
                MaxEntries)

\* the configurations of the calls whose termination is examined: resolver
\* functions of every mode, with a field reference in each section
FairConfigs ==
    ConfigsOver({ Entry(<<"sku">>, Field("id")), Entry(<<"sku">>, Fn("skuLookup")) },
                { Entry(<<"stock_item", "is_in_stock">>, Fn("inStock")),
                  Entry(<<"stock_item", "min_qty">>, Fn("rrpLookup")) },
                { Entry(<<"description">>, Field("description_2")),
                  Entry(<<"brand">>, Fn("brand")),
                  Entry(<<"brand">>, Fn("brandLookup")),
                  Entry(<<"colour">>, Fn("lookupFails")),
                  Entry(<<"size">>, Fn("boom")) },
                MaxEntries)

\* ------------------------------------------------------------ transform
sections == <<"core", "extensionAttributes", "customAttributes">>

\* Object.entries(this.mapping[section] || {}) for one section
SectionEntries(m, s) ==
    [i \in 1..Len(m[s]) |-> [section |-> s, key |-> m[s][i].key, instr |-> m[s][i].instr]]

\* the entries in the order the two nested loops visit them
Entries(m) ==
    SectionEntries(m, sections[1]) \o SectionEntries(m, sections[2])
        \o SectionEntries(m, sections[3])

\* one payload object for all calls
Root_Shared(c) == Ref(1, "payload", 0, 0)

Root(c) == Ref(c, "payload", 0, 0)
Product(c) == Ref(c, "product", 0, 0)
CustomAttributes(c) == Ref(c, "custom_attributes", 0, 0)

\* const magentoPayload = { product: { custom_attributes: [] } }
NewPayload(h, c) ==
    (Root(c) :> Obj(("product" :> Product(c))))
    @@ (Product(c) :> Obj(("custom_attributes" :> CustomAttributes(c))))
    @@ (CustomAttributes(c) :> Arr(<<>>))
    @@ h

\* value === null alone: undefined is written like a value
IsAbsent_NullOnly(v) == v = Null

\* value === null || typeof value === 'undefined'
IsAbsent(v) == v = Null \/ v = Undefined

\* `product.${magentoPath}` for every section
DestinationPath_NoPrefix(section, key) == <<"product">> \o key

\* `product.${section === 'extensionAttributes' ? 'extension_attributes.' : ''}${magentoPath}`
DestinationPath(section, key) ==
    <<"product">>
        \o (IF section = "extensionAttributes" THEN <<"extension_attributes">> ELSE <<>>)
        \o key

\* the destination key as the configuration writes it: 'stock_item.qty'
RECURSIVE Dotted(_)
Dotted(key) == IF Len(key) = 1 THEN key[1] ELSE key[1] \o "." \o Dotted(Tail(key))

\* lodash.set without its isObject test: a new {} at every key on the way
RECURSIVE SetWalk_Clobber(_, _, _, _, _, _, _)
SetWalk_Clobber(h, nested, path, idx, v, c, i) ==
    IF idx = Len(path) THEN Assign(h, nested, path[idx], v)
    ELSE LET fresh == Ref(c, "node", i, idx)
         IN SetWalk_Clobber(Assign((fresh :> Obj(NoProps)) @@ h, nested, path[idx], fresh),
                            fresh, path, idx + 1, v, c, i)

\* lodash.set(object, path, value): walk the path from `nested`, keeping
\* every object met on the way, putting a new {} where there is none, and
\* assign the value at the last key
RECURSIVE SetWalk(_, _, _, _, _, _, _)
SetWalk(h, nested, path, idx, v, c, i) ==
    IF idx = Len(path) THEN Assign(h, nested, path[idx], v)
    ELSE LET objValue == GetProp(h, nested, path[idx])
             fresh == Ref(c, "node", i, idx)
         IN IF IsRef(objValue) THEN SetWalk(h, objValue, path, idx + 1, v, c, i)
            ELSE SetWalk(Assign((fresh :> Obj(NoProps)) @@ h, nested, path[idx], fresh),
                         fresh, path, idx + 1, v, c, i)

LodashSet(h, object, path, v, c, i) == SetWalk(h, object, path, 1, v, c, i)

TypeError == Prim("TypeError")
NoError == Prim("no error")

\* magentoPayload.product.custom_attributes.push({attribute_code, value})
PushCustom(h, c, i, key, v) ==
    LET list == GetProp(h, GetProp(h, Root(c), "product"), "custom_attributes")
        entry == Ref(c, "entry", i, 0)
    IN IF IsRef(list) /\ h[list].kind = "arr"
       THEN [heap |-> [((entry :> Obj(("attribute_code" :> Prim("s:" \o Dotted(key))) @@ ("value" :> v))) @@ h)
                          EXCEPT ![list].elems = Append(@, entry)],
             err |-> NoError]
       ELSE [heap |-> h, err |-> TypeError]

\* lines 35-47: what a task does with its resolved value
Commit(h, c, i, e, v) ==
    IF IsAbsent(v) THEN [heap |-> h, err |-> NoError]
    ELSE IF e.section = "customAttributes" THEN PushCustom(h, c, i, e.key, v)
    ELSE [heap |-> LodashSet(h, Root(c), DestinationPath(e.section, e.key), v, c, i),
          err |-> NoError]

Settled(r) == IF r.err = NoError THEN "done" ELSE "failed"

\* one iteration of the loops: the async function of entry i runs up to its
\* first await (a resolver function) or to its end (a field reference)
SyncStep(acc, c, src, e, i) ==
    IF e.instr.kind = "fn"
    THEN LET r == Resolvers[e.instr.name]
             out == Returns(e.instr.name, acc.heap, src)
             called == [acc EXCEPT !.invoked = Append(@, [entry |-> i, arg |-> src]),
                                   !.out = Append(@, out)]
         IN CASE r.mode = "throw" ->
                   [called EXCEPT !.ts = Append(@, "failed"), !.terr = Append(@, out),
                                  !.failed = Append(@, i)]
              [] r.mode = "sync" ->
                   [called EXCEPT !.ts = Append(@, "queued"), !.terr = Append(@, NoError),
                                  !.jobs = Append(@, <<"task", c, i>>)]
              [] OTHER ->
                   [called EXCEPT !.ts = Append(@, "awaiting"), !.terr = Append(@, NoError)]
    ELSE LET r == Commit(acc.heap, c, i, e, GetProp(acc.heap, src, e.instr.name))
         IN [acc EXCEPT !.heap = r.heap, !.ts = Append(@, Settled(r)),
                        !.terr = Append(@, r.err), !.out = Append(@, Undefined),
                        !.failed = IF r.err = NoError THEN @ ELSE Append(@, i)]

\* the entry's function not async: an exception thrown by a resolver function
\* leaves the loops
RECURSIVE Loop_StopAtThrow(_, _, _, _, _)
Loop_StopAtThrow(acc, c, src, es, i) ==
    IF i > Len(es) \/ (i > 1 /\ es[i - 1].instr.kind = "fn"
                             /\ Resolvers[es[i - 1].instr.name].mode = "throw")
    THEN acc
    ELSE Loop_StopAtThrow(SyncStep(acc, c, src, es[i], i), c, src, es, i + 1)

RECURSIVE Loop(_, _, _, _, _)
Loop(acc, c, src, es, i) ==
    IF i > Len(es) THEN acc
    ELSE Loop(SyncStep(acc, c, src, es[i], i), c, src, es, i + 1)

\* Promise.all(promises) subscribes to the promises in order: a reaction
\* job at once for each promise already settled
RECURSIVE Subscribe(_, _, _)
Subscribe(ts, c, i) ==
    IF i > Len(ts) THEN <<>>
    ELSE (IF ts[i] \in {"done", "failed"} THEN <<<<"all", c, i>>>> ELSE <<>>)
            \o Subscribe(ts, c, i + 1)

Pending == [state |-> "pending", value |-> Undefined]

\* transform(sourceObject) up to its await of Promise.all
Transform(src, limit) ==
    /\ Len(calls) < limit
    /\ LET c == Len(calls) + 1
           es == Entries(mapping)
           acc == Loop([heap |-> NewPayload(heap, c), ts |-> <<>>, terr |-> <<>>,
                        failed |-> <<>>, jobs |-> <<>>, invoked |-> <<>>, out |-> <<>>], c, src, es, 1)
       IN /\ heap' = acc.heap
          /\ calls' = Append(calls,
                [src |-> src, ts |-> acc.ts, terr |-> acc.terr, failed |-> acc.failed,
                 invoked |-> acc.invoked, out |-> acc.out,
                 remaining |-> Len(es),
                 all |-> IF Len(es) = 0 THEN "fulfilled" ELSE "pending",
                 allErr |-> NoError, result |-> Pending])
          /\ queue' = queue \o acc.jobs \o Subscribe(acc.ts, c, 1)
                        \o (IF Len(es) = 0 THEN <<<<"main", c, 0>>>> ELSE <<>>)
    /\ UNCHANGED mapping

\* the pending promise of an async resolver settles, at any time after the
\* call (in the block that called transform, in a microtask or in a later
\* task of the event loop): the task's resumption joins the microtask queue
Settle(c, i) ==
    /\ c \in 1..Len(calls)
    /\ i \in 1..Len(calls[c].ts)
    /\ calls[c].ts[i] = "awaiting"
    /\ calls' = [calls EXCEPT ![c].ts[i] = "queued"]
    /\ queue' = Append(queue, <<"task", c, i>>)
    /\ UNCHANGED <<mapping, heap>>

\* the task of entry i resumes after its await
ResumeTask ==
    /\ queue # <<>>
    /\ Head(queue)[1] = "task"
    /\ LET c == Head(queue)[2]
           i == Head(queue)[3]
           e == Entries(mapping)[i]
           f == Resolvers[e.instr.name]
           out == calls[c].out[i]
           r == IF f.ok THEN Commit(heap, c, i, e, out) ELSE [heap |-> heap, err |-> out]
       IN /\ heap' = r.heap
          /\ calls' = [calls EXCEPT ![c].ts[i] = Settled(r), ![c].terr[i] = r.err,
                                    ![c].failed = IF r.err = NoError THEN @ ELSE Append(@, i)]
          /\ queue' = Append(Tail(queue), <<"all", c, i>>)
    /\ UNCHANGED mapping

\* Promise.allSettled in the place of Promise.all: a rejected promise counts
\* like a fulfilled one
AllStep_Settled(k, i) ==
    [k EXCEPT !.remaining = @ - 1,
              !.all = IF k.remaining = 1 /\ @ = "pending" THEN "fulfilled" ELSE @]

\* Promise.any in the place of Promise.all: fulfilled by the first fulfilled
\* promise
AllStep_First(k, i) ==
    IF k.ts[i] = "done"
    THEN [k EXCEPT !.remaining = @ - 1, !.all = IF @ = "pending" THEN "fulfilled" ELSE @]
    ELSE IF k.all = "pending"
    THEN [k EXCEPT !.all = "rejected", !.allErr = k.terr[i]]
    ELSE k

\* the count compared with 0 before it is decremented: never fulfilled
AllStep_OffByOne(k, i) ==
    IF k.ts[i] = "done"
    THEN [k EXCEPT !.remaining = @ - 1,
                   !.all = IF k.remaining = 0 /\ @ = "pending" THEN "fulfilled" ELSE @]
    ELSE IF k.all = "pending"
    THEN [k EXCEPT !.all = "rejected", !.allErr = k.terr[i]]
    ELSE k

\* a later rejection replaces the reason of an earlier one
AllStep_LastFailure(k, i) ==
    IF k.ts[i] = "done"
    THEN [k EXCEPT !.remaining = @ - 1,
                   !.all = IF k.remaining = 1 /\ @ = "pending" THEN "fulfilled" ELSE @]
    ELSE [k EXCEPT !.all = "rejected", !.allErr = k.terr[i]]

\* Promise.all on the settlement of the promise of task i: count a fulfilled
\* promise and fulfil with the last one, reject with the first rejected one
AllStep(k, i) ==
    IF k.ts[i] = "done"
    THEN [k EXCEPT !.remaining = @ - 1,
                   !.all = IF k.remaining = 1 /\ @ = "pending" THEN "fulfilled" ELSE @]
    ELSE IF k.all = "pending"
    THEN [k EXCEPT !.all = "rejected", !.allErr = k.terr[i]]
    ELSE k

\* Promise.all's reaction to the promise of task i
AllReaction ==
    /\ queue # <<>>
    /\ Head(queue)[1] = "all"
    /\ LET c == Head(queue)[2]
           i == Head(queue)[3]
           k == calls[c]
       IN /\ calls' = [calls EXCEPT ![c] = AllStep(k, i)]
          /\ queue' = Tail(queue)
                \o (IF k.all = "pending" /\ AllStep(k, i).all # "pending"
                    THEN <<<<"main", c, 0>>>> ELSE <<>>)
    /\ UNCHANGED <<mapping, heap>>

ValidationError == Prim("Error: Mapping failed to generate a SKU for the product.")

\* !magentoPayload.product.sku
SkuMissing(h, c) == Falsy(GetProp(h, GetProp(h, Root(c), "product"), "sku"))

\* the sku check in a finally block: it runs, and its error wins, also when
\* Promise.all has rejected
ResumeTransform_CheckAlways ==
    /\ queue # <<>>
    /\ Head(queue)[1] = "main"
    /\ LET c == Head(queue)[2]
           k == calls[c]
       IN calls' = [calls EXCEPT ![c].result =
                       IF SkuMissing(heap, c)
                       THEN [state |-> "rejected", value |-> ValidationError]
                       ELSE IF k.all = "rejected"
                       THEN [state |-> "rejected", value |-> k.allErr]
                       ELSE [state |-> "fulfilled", value |-> Root(c)]]
    /\ queue' = Tail(queue)
    /\ UNCHANGED <<mapping, heap>>

\* transform resumes after await Promise.all(promises)
ResumeTransform ==
    /\ queue # <<>>
    /\ Head(queue)[1] = "main"
    /\ LET c == Head(queue)[2]
           k == calls[c]
       IN calls' = [calls EXCEPT ![c].result =
                       IF k.all = "rejected" THEN [state |-> "rejected", value |-> k.allErr]
                       ELSE IF SkuMissing(heap, c)
                       THEN [state |-> "rejected", value |-> ValidationError]
                       ELSE [state |-> "fulfilled", value |-> Root(c)]]
    /\ queue' = Tail(queue)
    /\ UNCHANGED <<mapping, heap>>

InitOver(configs) ==
    /\ mapping \in configs
    /\ heap = SourceHeap
    /\ calls = <<>>
    /\ queue = <<>>

\* one call of transform; createMapper accepts every configuration
Init == InitOver(Configs)

Next ==
    \/ \E src \in Sources : Transform(src, 1)
    \/ \E i \in 1..MaxEntries : Settle(1, i)
    \/ ResumeTask
    \/ AllReaction
    \/ ResumeTransform

Spec == Init /\ [][Next]_vars

\* the run-to-completion scheduler runs every job of the microtask queue; a
\* resolver's lookup may never complete and transform may never be called
InitFair == InitOver(FairConfigs)

SpecFair ==
    /\ InitFair /\ [][Next]_vars
    /\ WF_vars(ResumeTask) /\ WF_vars(AllReaction) /\ WF_vars(ResumeTransform)

\* several calls of transform interleaved on one engine instance
InitCalls == InitOver(CallConfigs)

NextCalls ==
    \/ \E src \in Sources : Transform(src, MaxCalls)
    \/ \E c \in 1..MaxCalls, i \in 1..MaxCallEntries : Settle(c, i)
    \/ ResumeTask
    \/ AllReaction
    \/ ResumeTransform

SpecCalls == InitCalls /\ [][NextCalls]_vars

\* transform called twice on one engine instance
InitTwice == InitOver(TwiceConfigs)

NextTwice ==
    \/ \E src \in Sources : Transform(src, 2)
    \/ \E c \in 1..2, i \in 1..MaxEntries : Settle(c, i)
    \/ ResumeTask
    \/ AllReaction
    \/ ResumeTransform

SpecTwice == InitTwice /\ [][NextTwice]_vars

\* ------------------------------------------------------------ properties
Calls == 1..Len(calls)
State(c) == calls[c].result.state
Returned(c) == State(c) = "fulfilled"

\* magentoPayload.product and the values the returned payload holds
ProductOf(c) == GetProp(heap, Root(c), "product")
ListOf(c) == GetProp(heap, ProductOf(c), "custom_attributes")
ListElems(c) == IF IsRef(ListOf(c)) THEN heap[ListOf(c)].elems ELSE <<>>

CodeOf(key) == Prim("s:" \o Dotted(key))

\* where the customAttributes section declares an attribute code (0: nowhere)
DeclaredAt(code) ==
    IF \E j \in 1..Len(mapping.customAttributes) : CodeOf(mapping.customAttributes[j].key) = code
    THEN CHOOSE j \in 1..Len(mapping.customAttributes) :
            CodeOf(mapping.customAttributes[j].key) = code
    ELSE 0

IsEntry(v) == IsRef(v) /\ heap[v].kind = "obj" /\ DOMAIN heap[v].props = {"attribute_code", "value"}

\* a value with every object it reaches, as nested data
RECURSIVE Deep(_, _)
Deep(h, v) ==
    IF ~IsRef(v) THEN v
    ELSE <<"object", h[v].kind,
           [k \in DOMAIN h[v].props |-> Deep(h, h[v].props[k])],
           [j \in 1..Len(h[v].elems) |-> Deep(h, h[v].elems[j])]>>

\* the value at a path of keys from the value o (Missing: no such key)
Missing == Prim("no such key")
RECURSIVE ValueAt(_, _, _)
ValueAt(h, o, path) ==
    IF path = <<>> THEN o
    ELSE IF IsRef(o) /\ path[1] \in DOMAIN h[o].props
    THEN ValueAt(h, h[o].props[path[1]], Tail(path))
    ELSE Missing

\* what the instruction of an entry resolves to: the field of the source
\* record as it was passed, or what the resolver function returns
ResolvedValue(src, e) ==
    IF e.instr.kind = "field" THEN GetProp(SourceHeap, src, e.instr.name)
    ELSE Returns(e.instr.name, SourceHeap, src)

\* the entries of product.custom_attributes that carry the attribute code of key
EntriesFor(c, key) ==
    {j \in 1..Len(ListElems(c)) :
        GetProp(heap, ListElems(c)[j], "attribute_code") = CodeOf(key)}

\* the task of entry i of call c is a resolver function that fails
FailingResolver(i) ==
    /\ Entries(mapping)[i].instr.kind = "fn"
    /\ ~Resolvers[Entries(mapping)[i].instr.name].ok

\* C1: in a returned output the entries of product.custom_attributes stand in
\* the order in which the customAttributes section declares their keys, and
\* each entry is exactly {attribute_code, value} (stated for the
\* configurations in which no core key addresses the list).
C1_DeclaredOrder ==
    \A c \in Calls : (Returned(c) /\ CollisionFree(mapping)) =>
        /\ \A j \in 1..Len(ListElems(c)) : IsEntry(ListElems(c)[j])
        /\ \A j, k \in 1..Len(ListElems(c)) :
              j < k => DeclaredAt(GetProp(heap, ListElems(c)[j], "attribute_code"))
                          < DeclaredAt(GetProp(heap, ListElems(c)[k], "attribute_code"))

\* C2: a call with a failing resolver function never returns an output; once
\* a resolver has failed and the call has settled, it is rejected with the
\* error of the first task that failed, a resolver's error and not the
\* validation error.
C2_ResolverFailureRejects ==
    \A c \in Calls :
        /\ (\E i \in 1..Len(Entries(mapping)) : FailingResolver(i)) => ~Returned(c)
        /\ (calls[c].failed # <<>> /\ State(c) # "pending") =>
              /\ State(c) = "rejected"
              /\ FailingResolver(calls[c].failed[1])
              /\ calls[c].result.value
                    = Returns(Entries(mapping)[calls[c].failed[1]].instr.name,
                              SourceHeap, calls[c].src)
              /\ calls[c].result.value # ValidationError

\* a call rejected with the error of the second of two failing resolvers to be
\* invoked, the first to fail, while the payload has no sku
C2_Witness ==
    \E c \in Calls :
        /\ State(c) = "rejected"
        /\ Len(calls[c].failed) = 2
        /\ calls[c].failed[1] > calls[c].failed[2]
        /\ SkuMissing(heap, c)

\* C4: the source record and the objects it holds are, in every state, as
\* they were before the call.
C4_SourceUnchanged ==
    \A r \in DOMAIN SourceHeap : heap[r] = SourceHeap[r]

\* C5: a returned output holds a key at the destination path of a core or
\* extensionAttributes entry, and a list entry with the attribute code of a
\* customAttributes entry, exactly when the entry resolved to a value that is
\* neither null nor undefined.  Stated for the configurations in which no
\* destination path leads into another entry's destination.
C5_AbsentOmitted ==
    \A c \in Calls : (Returned(c) /\ CollisionFree(mapping)) =>
        \A i \in 1..Len(Entries(mapping)) :
            LET e == Entries(mapping)[i]
                present == ~(ResolvedValue(calls[c].src, e) \in {Null, Undefined})
            IN IF e.section = "customAttributes"
               THEN (EntriesFor(c, e.key) # {}) <=> present
               ELSE (ValueAt(heap, Root(c), DestinationPath(e.section, e.key)) # Missing)
                        <=> present

\* a returned output of a configuration with a core entry that resolved to
\* undefined and a customAttributes entry that resolved to null
C5_Witness ==
    \E c \in Calls :
        /\ Returned(c) /\ CollisionFree(mapping)
        /\ \E i, j \in 1..Len(Entries(mapping)) :
              /\ Entries(mapping)[i].section = "core"
              /\ ResolvedValue(calls[c].src, Entries(mapping)[i]) = Undefined
              /\ Entries(mapping)[j].section = "customAttributes"
              /\ ResolvedValue(calls[c].src, Entries(mapping)[j]) = Null

\* C6: two calls of transform with the same source record that both return,
\* return structurally identical outputs.
C6_SameInputSameOutput ==
    \A c, d \in Calls :
        (Returned(c) /\ Returned(d) /\ calls[c].src = calls[d].src)
            => Deep(heap, Root(c)) = Deep(heap, Root(d))

\* the objects a call allocates to hold the payload's nested keys
IsContainer(o, c) ==
    o = Root(c) \/ o = Product(c) \/ (IsRef(o) /\ o[2] = c /\ o[3] = "node")

\* the paths from o, through containers, to what the containers hold
RECURSIVE LeafPaths(_, _, _)
LeafPaths(h, o, c) ==
    IF IsContainer(o, c)
    THEN UNION {{<<k>> \o p : p \in LeafPaths(h, h[o].props[k], c)} : k \in DOMAIN h[o].props}
    ELSE {<<>>}

Present(c, e) == ~(ResolvedValue(calls[c].src, e) \in {Null, Undefined})

\* the payload of call c holds what the configuration declares and no more
AsDeclared(c) ==
    LET es == Entries(mapping)
        placed == {i \in 1..Len(es) : Present(c, es[i])}
    IN /\ heap[Root(c)].kind = "obj" /\ DOMAIN heap[Root(c)].props = {"product"}
       /\ LeafPaths(heap, Root(c), c)
             = {Location(es[i].section, es[i].key) : i \in placed}
                  \cup {<<"product", "custom_attributes">>}
       /\ IsRef(ListOf(c)) /\ heap[ListOf(c)].kind = "arr" /\ heap[ListOf(c)].props = NoProps
       /\ Len(ListElems(c)) = Cardinality({i \in placed : es[i].section = "customAttributes"})
       /\ \A i \in placed :
             IF es[i].section = "customAttributes"
             THEN \E j \in 1..Len(ListElems(c)) :
                    /\ IsEntry(ListElems(c)[j])
                    /\ heap[ListElems(c)[j]].props["attribute_code"] = CodeOf(es[i].key)
                    /\ heap[ListElems(c)[j]].props["value"] = ResolvedValue(calls[c].src, es[i])
             ELSE ValueAt(heap, Root(c), Location(es[i].section, es[i].key))
                    = ResolvedValue(calls[c].src, es[i])

\* core: { sku: 'id' } alone
SkuOnly ==
    [core |-> <<Entry(<<"sku">>, Field("id"))>>, extensionAttributes |-> <<>>,
     customAttributes |-> <<>>]

\* C7: a returned output is {product: ...} holding each entry that resolved to
\* a value at product.k (core), product.extension_attributes.k
\* (extensionAttributes) or as one {attribute_code: k, value} of
\* product.custom_attributes (customAttributes), a field reference with the
\* source's own value, and nothing else; core {sku: 'id'} on {id: 'X1'} gives
\* {product: {sku: 'X1', custom_attributes: []}}.  Stated for the
\* configurations in which no destination path leads into another entry's
\* destination.
C7_OutputAsDeclared ==
    \A c \in Calls : (Returned(c) /\ CollisionFree(mapping)) =>
        /\ AsDeclared(c)
        /\ (mapping = SkuOnly /\ calls[c].src = SrcA) =>
              Deep(heap, Root(c))
                = <<"object", "obj",
                    ("product" :>
                        <<"object", "obj",
                          ("sku" :> Prim("s:X1"))
                            @@ ("custom_attributes" :> <<"object", "arr", NoProps, <<>>>>),
                          <<>>>>),
                    <<>>>>

\* a returned output with an entry of each of the three sections
C7_Witness ==
    \E c \in Calls :
        /\ Returned(c) /\ CollisionFree(mapping)
        /\ \A s \in {"core", "extensionAttributes", "customAttributes"} :
              \E i \in 1..Len(Entries(mapping)) :
                  Entries(mapping)[i].section = s /\ Present(c, Entries(mapping)[i])

\* extensionAttributes: { 'stock_item.qty': 'inventory' } alone
QtyOnly ==
    [core |-> <<>>,
     extensionAttributes |-> <<Entry(<<"stock_item", "qty">>, Field("inventory"))>>,
     customAttributes |-> <<>>]

\* every value a task of call c has committed at a dotted path is at that
\* path, and every key before the last of the path holds an object
CommittedInPlace(c) ==
    \A i \in 1..Len(calls[c].ts) :
        LET e == Entries(mapping)[i]
            path == Location(e.section, e.key)
        IN (calls[c].ts[i] = "done" /\ e.section # "customAttributes" /\ Present(c, e)) =>
              /\ ValueAt(heap, Root(c), path) = ResolvedValue(calls[c].src, e)
              /\ \A n \in 1..(Len(path) - 1) : IsRef(ValueAt(heap, Root(c), SubSeq(path, 1, n)))

\* no step changes or removes a key an object already has
KeysKept ==
    \A o \in DOMAIN heap :
        \A k \in DOMAIN heap[o].props :
            k \in DOMAIN heap'[o].props /\ heap'[o].props[k] = heap[o].props[k]

\* C8: a commit at a dotted path of the core or extensionAttributes section
\* creates the containers on the way that do not exist and changes no key
\* already written, in whatever order the writes of a call complete;
\* 'stock_item.qty': 'inventory' on {inventory: 7} gives
\* product.extension_attributes = {stock_item: {qty: 7}}.  Stated for the
\* configurations in which no destination path leads into another entry's
\* destination.
C8_SiblingsKept ==
    /\ [](\A c \in Calls :
            /\ CollisionFree(mapping) => CommittedInPlace(c)
            /\ (mapping = QtyOnly /\ calls[c].src = SrcA) =>
                  Deep(heap, ValueAt(heap, Root(c), <<"product", "extension_attributes">>))
                    = <<"object", "obj",
                        ("stock_item" :> <<"object", "obj", ("qty" :> Prim("n:7")), <<>>>>),
                        <<>>>>)
    /\ [][CollisionFree(mapping) => KeysKept]_vars

\* a container created by the commit of a later entry that also holds the
\* value committed, after it, by an earlier entry
C8_Witness ==
    \E c \in Calls :
        /\ CollisionFree(mapping)
        /\ \E i, j \in 1..Len(calls[c].ts) :
            LET pi == Location(Entries(mapping)[i].section, Entries(mapping)[i].key)
                pj == Location(Entries(mapping)[j].section, Entries(mapping)[j].key)
            IN /\ j < i /\ calls[c].ts[i] = "done" /\ calls[c].ts[j] = "done"
               /\ Len(pi) = 4 /\ Len(pj) = 4 /\ SubSeq(pi, 1, 3) = SubSeq(pj, 1, 3)
               /\ ValueAt(heap, Root(c), SubSeq(pi, 1, 3)) = Ref(c, "node", i, 3)
               /\ ValueAt(heap, Root(c), pj) # Missing

\* the objects a value reaches that are not objects of a source record
RECURSIVE Built(_, _)
Built(h, v) ==
    IF ~IsRef(v) \/ v \in DOMAIN SourceHeap THEN {}
    ELSE {v} \cup UNION {Built(h, h[v].props[k]) : k \in DOMAIN h[v].props}
             \cup UNION {Built(h, h[v].elems[j]) : j \in 1..Len(h[v].elems)}

\* the call a reference belongs to: the call that allocated the object
Owner(o) == o[2]

\* what a call yields when it is the only call: the error of a failing
\* resolver, else the validation error for a missing sku, else the payload
\* the configuration declares for its source record
AsAlone(c) ==
    LET es == Entries(mapping)
        skus == {i \in 1..Len(es) : es[i].section = "core" /\ es[i].key = <<"sku">>}
    IN IF \E i \in 1..Len(es) : FailingResolver(i)
       THEN /\ State(c) = "rejected"
            /\ \E i \in 1..Len(es) :
                  /\ FailingResolver(i)
                  /\ calls[c].result.value = Returns(es[i].instr.name, SourceHeap, calls[c].src)
       ELSE IF \A i \in skus : ResolvedValue(calls[c].src, es[i])
                                  \in {Undefined, Null, Prim("s:"), Prim("n:0")}
       THEN calls[c].result = [state |-> "rejected", value |-> ValidationError]
       ELSE calls[c].result = [state |-> "fulfilled", value |-> Root(c)] /\ AsDeclared(c)

\* a step changes an object only in a job of the call that allocated it, and
\* the record of a call only in a job of that call or by settling one of its
\* resolvers
OwnStepsOnly ==
    /\ \A o \in DOMAIN heap :
          heap'[o] # heap[o] => queue # <<>> /\ Head(queue)[2] = Owner(o)
    /\ \A c \in Calls :
          calls'[c] # calls[c] =>
              \/ queue # <<>> /\ Head(queue)[2] = c /\ IsPrefix(Tail(queue), queue')
              \/ \E i \in 1..Len(calls[c].ts) :
                    queue' = Append(queue, <<"task", c, i>>) /\ heap' = heap

\* C9: with calls of transform interleaved on one engine, the objects of each
\* call's payload are its own (allocated by it, reached from no other call's
\* payload and changed by no other call's steps), each settled call has the
\* result it has when run alone, and the mapping configuration never changes.
C9_CallsIsolated ==
    /\ [](\A c \in Calls :
            /\ \A o \in Built(heap, Root(c)) : Owner(o) = c
            /\ \A d \in Calls \ {c} : Built(heap, Root(c)) \cap Built(heap, Root(d)) = {}
            /\ State(c) # "pending" => AsAlone(c))
    /\ [][OwnStepsOnly /\ mapping' = mapping]_vars

\* a later call on another source record has returned while an earlier call
\* still awaits a resolver
C9_Witness ==
    \E c, d \in Calls :
        /\ c < d /\ calls[c].src # calls[d].src
        /\ State(c) = "pending" /\ \E i \in 1..Len(calls[c].ts) : calls[c].ts[i] = "awaiting"
        /\ Returned(d) /\ Len(ListElems(d)) >= 1
        /\ ValueAt(heap, Root(d), <<"product", "extension_attributes", "stock_item", "qty">>)
              # Missing

\* the tasks of call c that have neither completed nor failed
InFlight(c) == {i \in 1..Len(calls[c].ts) : calls[c].ts[i] \in {"awaiting", "queued"}}

\* C10: a call that has settled, by a return or by a rejection, has no
\* per-field task in flight: each of its tasks has completed or failed.
C10_SettledOnlyWhenAllDone ==
    \A c \in Calls : State(c) # "pending" => InFlight(c) = {}

\* the step of call c that runs the sku check and returns the payload
\* (lines 56-60 after a fulfilled Promise.all)
ReturnsNow(c) == State(c) = "pending" /\ calls'[c].result.state = "fulfilled"

\* C11: in the step in which a call checks the sku and returns, every task
\* has already resolved and committed in an earlier step, the check sees the
\* sku and nothing is written any more; a returned output holds the sku that a
\* suspending resolver produced.
C11_ResolvedBeforeValidation ==
    /\ [](\A c \in Calls : Returned(c) =>
            \A i \in 1..Len(calls[c].ts) :
                LET e == Entries(mapping)[i]
                IN /\ calls[c].ts[i] = "done"
                   /\ (e.section = "core" /\ e.key = <<"sku">>) =>
                         GetProp(heap, ProductOf(c), "sku") = ResolvedValue(calls[c].src, e))
    /\ [][\A c \in Calls : ReturnsNow(c) =>
            /\ \A i \in 1..Len(calls[c].ts) : calls[c].ts[i] = "done"
            /\ InFlight(c) = {}
            /\ ~SkuMissing(heap, c)
            /\ heap' = heap]_vars

\* a returned output whose sku comes from a resolver that suspended while a
\* sibling resolver, enumerated after it, settled and committed before it
C11_Witness ==
    \E c \in Calls :
        /\ Returned(c)
        /\ Entries(mapping)[1] = [section |-> "core", key |-> <<"sku">>, instr |-> Fn("skuLookup")]
        /\ GetProp(heap, ProductOf(c), "sku") = Prim("s:X9")
        /\ Len(ListElems(c)) >= 1
        /\ \E i \in 2..Len(Entries(mapping)) :
              /\ Entries(mapping)[i].instr.kind = "fn"
              /\ Resolvers[Entries(mapping)[i].instr.name].mode = "async"

\* the customAttributes tasks of call c that have pushed an entry
Pushed(c) ==
    {i \in 1..Len(calls[c].ts) :
        /\ calls[c].ts[i] = "done"
        /\ Entries(mapping)[i].section = "customAttributes"
        /\ Present(c, Entries(mapping)[i])}

\* what the tasks of call c have committed is where they committed it:
\* product.custom_attributes is the list the payload was created with, it
\* holds one entry for each task that pushed one and no other, and the value
\* of each core and extensionAttributes task is at its destination path
NothingOverwritten(c) ==
    /\ ListOf(c) = CustomAttributes(c)
    /\ Len(ListElems(c)) = Cardinality(Pushed(c))
    /\ \A i \in Pushed(c) :
          \E j \in 1..Len(ListElems(c)) :
              /\ ListElems(c)[j] = Ref(c, "entry", i, 0)
              /\ IsEntry(ListElems(c)[j])
              /\ heap[ListElems(c)[j]].props["attribute_code"] = CodeOf(Entries(mapping)[i].key)
              /\ heap[ListElems(c)[j]].props["value"]
                    = ResolvedValue(calls[c].src, Entries(mapping)[i])
    /\ CommittedInPlace(c)

\* C12: with destination keys unique within each section, in every state
\* what each task of a call has committed is still where the task wrote it,
\* and product.custom_attributes is the list the payload was created with.
C12_UniqueKeysNoOverwrite ==
    \A c \in Calls : NothingOverwritten(c)

\* the instruction of entry i does no asynchronous work: a field reference,
\* or a resolver function that returns its value synchronously
ResolvesSynchronously(i) ==
    LET e == Entries(mapping)[i]
    IN \/ e.instr.kind = "field"
       \/ e.instr.kind = "fn" /\ Resolvers[e.instr.name].mode = "sync"
                              /\ Resolvers[e.instr.name].ok

\* C13: a task whose instruction is a field reference or a resolver function
\* returning its value synchronously does not suspend: when a task enumerated
\* after it has committed, it has resolved and committed already.
C13_SyncTasksDoNotYield ==
    \A c \in Calls :
        \A i, j \in 1..Len(calls[c].ts) :
            (i < j /\ ResolvesSynchronously(i) /\ calls[c].ts[j] = "done")
                => calls[c].ts[i] = "done"

\* C14: a call rejected with the validation error has had every resolution
\* succeed; a settled call with a failed task is rejected by Promise.all with
\* the first failure, the sku check not being reached, also when the payload
\* has no sku.
C14_ValidationOnlyAfterSuccess ==
    \A c \in Calls :
        /\ calls[c].result = [state |-> "rejected", value |-> ValidationError] =>
              /\ \A i \in 1..Len(calls[c].ts) : calls[c].ts[i] = "done"
              /\ calls[c].failed = <<>>
              /\ calls[c].all = "fulfilled"
        /\ (State(c) # "pending" /\ calls[c].failed # <<>>) =>
              /\ calls[c].all = "rejected"
              /\ calls[c].result
                    = [state |-> "rejected", value |-> calls[c].terr[calls[c].failed[1]]]

\* a call without a sku in its payload, rejected with the error of a resolver
\* whose lookup failed after every other task had completed
C14_Witness ==
    \E c \in Calls :
        /\ State(c) = "rejected"
        /\ SkuMissing(heap, c)
        /\ Len(calls[c].ts) >= 2
        /\ \E i \in 1..Len(calls[c].ts) :
              /\ calls[c].failed = <<i>>
              /\ Entries(mapping)[i].instr = Fn("lookupFails")
              /\ calls[c].result.value = Prim("Error: lookup")
              /\ \A j \in 1..Len(calls[c].ts) : j # i => calls[c].ts[j] = "done"

\* the invocations of the resolver function of entry i in call c
InvocationsOf(c, i) ==
    {n \in 1..Len(calls[c].invoked) : calls[c].invoked[n].entry = i}

\* C15: a call has one task for each entry of the configuration, in the order
\* core, extensionAttributes, customAttributes; each resolver function is
\* invoked exactly once, in that order, with the source record passed to
\* transform, also after an earlier resolver has thrown or rejected; no
\* resolver is invoked again and no settled task resolves again.
C15_EachEntryResolvedOnce ==
    /\ [](\A c \in Calls :
            LET es == Entries(mapping)
                inv == calls[c].invoked
            IN /\ Len(calls[c].ts) = Len(es)
               /\ \A i \in 1..Len(es) :
                     Cardinality(InvocationsOf(c, i)) = IF es[i].instr.kind = "fn" THEN 1 ELSE 0
               /\ \A n \in 1..Len(inv) : inv[n].arg = calls[c].src
               /\ \A n, m \in 1..Len(inv) : n < m => inv[n].entry < inv[m].entry)
    /\ [][\A c \in Calls :
            /\ calls'[c].invoked = calls[c].invoked
            /\ \A i \in 1..Len(calls[c].ts) :
                  /\ calls[c].ts[i] \in {"done", "failed"} => calls'[c].ts[i] = calls[c].ts[i]
                  /\ calls[c].ts[i] = "queued" => calls'[c].ts[i] # "awaiting"]_vars

\* a call in which a resolver enumerated after one that threw and one that
\* rejected has been invoked and has committed its value
C15_Witness ==
    \E c \in Calls :
        \E i, j, k \in 1..Len(calls[c].ts) :
            /\ i < k /\ j < k
            /\ Entries(mapping)[i].instr = Fn("boom")
            /\ Entries(mapping)[j].instr = Fn("rejected")
            /\ Entries(mapping)[k].instr.kind = "fn"
            /\ InvocationsOf(c, k) # {}
            /\ calls[c].ts[k] = "done"

\* C16: once a call is rejected for a failed resolver, its result is the first
\* failure and stays so in every later step, whatever the tasks still in
\* flight do (complete, commit to the payload, fail): the call settles once
\* and never comes to hold an output.
C16_RejectionIsFinal ==
    /\ [](\A c \in Calls :
            (State(c) = "rejected" /\ calls[c].result.value # ValidationError) =>
                /\ calls[c].failed # <<>>
                /\ calls[c].result.value = calls[c].terr[calls[c].failed[1]])
    /\ [][\A c \in Calls :
            State(c) # "pending" => calls'[c].result = calls[c].result]_vars

\* a call rejected with the error a resolver threw in the loop, after which
\* one suspended sibling completed and pushed its entry to the payload and
\* another one failed
C16_Witness ==
    \E c \in Calls :
        /\ calls[c].result = [state |-> "rejected", value |-> Prim("Error: boom")]
        /\ Len(calls[c].failed) = 2
        /\ Entries(mapping)[calls[c].failed[1]].instr = Fn("boom")
        /\ Entries(mapping)[calls[c].failed[2]].instr = Fn("lookupFails")
        /\ \E i \in Pushed(c) :
              /\ Entries(mapping)[i].instr.kind = "fn"
              /\ Resolvers[Entries(mapping)[i].instr.name].mode = "async"

\* the resolver functions of call c that have not settled yet
Unsettled(c) == {i \in 1..Len(calls[c].ts) : calls[c].ts[i] = "awaiting"}

\* C17: a call all of whose resolver functions have settled settles; a call
\* with a resolver function that has not settled and no failed task has not
\* settled.
C17_SettlesIffResolversSettle ==
    /\ (Len(calls) = 1 /\ Unsettled(1) = {}) ~> (Len(calls) = 1 /\ State(1) # "pending")
    /\ [](\A c \in Calls :
            (Unsettled(c) # {} /\ calls[c].failed = <<>>) => State(c) = "pending")

\* a settled call of a configuration with two resolver functions that
\* suspended, after both have settled
C17_Witness ==
    \E c \in Calls :
        /\ State(c) # "pending"
        /\ Unsettled(c) = {}
        /\ Cardinality({i \in 1..Len(calls[c].ts) :
                          /\ Entries(mapping)[i].instr.kind = "fn"
                          /\ Resolvers[Entries(mapping)[i].instr.name].mode = "async"
                          /\ calls[c].ts[i] = "done"}) >= 2

\* C18: in every state product.custom_attributes is a list, and its entries
\* are exactly the {attribute_code, value} entries of the customAttributes
\* tasks that have committed so far, whatever keys the core section declares.
C18_ListOfCommittedEntries ==
    \A c \in Calls :
        /\ IsRef(ListOf(c)) /\ heap[ListOf(c)].kind = "arr"
        /\ heap[ListOf(c)].props = NoProps
        /\ Len(ListElems(c)) = Cardinality(Pushed(c))
        /\ \A j \in 1..Len(ListElems(c)) :
              \E i \in Pushed(c) :
                  /\ IsEntry(ListElems(c)[j])
                  /\ heap[ListElems(c)[j]].props["attribute_code"] = CodeOf(Entries(mapping)[i].key)
                  /\ heap[ListElems(c)[j]].props["value"]
                        = ResolvedValue(calls[c].src, Entries(mapping)[i])

\* C3: when every resolution of a call has succeeded, the call is rejected with
\* the validation error exactly when product.sku is absent or the empty
\* string, and returns the output for every other sku.
C3_ValidationIffAbsentOrEmpty ==
    \A c \in Calls :
        (State(c) # "pending" /\ \A i \in 1..Len(calls[c].ts) : calls[c].ts[i] = "done") =>
            IF GetProp(heap, ProductOf(c), "sku") \in {Undefined, Null, Prim("s:")}
            THEN calls[c].result = [state |-> "rejected", value |-> ValidationError]
            ELSE calls[c].result = [state |-> "fulfilled", value |-> Root(c)]

====
